---- MODULE Spec2Model ----
(***************************************************************************)
(* A model of package iotracer: the ring buffer of samples of a Trace,     *)
(* its change watchers, and the VCD export with its concurrent merge tree. *)
(***************************************************************************)
EXTENDS Integers, Sequences, FiniteSets

VARIABLES
    traces,     \* the Trace objects: maxSamples, samples, cursor, fullMask, changes
    chans,      \* the Event channels made by Watch: buf, depth, closed
    accepted,   \* for each trace, every sample SampleAt has stored so far
    lastOp,     \* the last call made, its arguments and what it returned
    details,    \* the snapshots (VCDDetail) an export works on
    export,     \* the goroutine of ExportVCD that writes the lines
    merge,      \* the goroutines of mergeVCD, by the range of details they merge
    out,        \* the Datums the export goroutine has received from mergeVCD
    lines       \* the lines the caller of ExportVCD has read

vars == <<traces, chans, accepted, lastOp, details, export, merge, out, lines>>

traceVars == <<traces, chans, accepted>>
exportVars == <<details, export, merge, out, lines>>

--------------------------------------------------------------------------
(* Bounds of the model. *)

\* Timestamps passed to SampleAt are 1..MaxTime; 0 is the zero time.Time.
MaxTime == 3
\* NewTrace is called with 1..MaxCap samples.
MaxCap == 2
\* At most MaxWatchers calls of Watch succeed.
MaxWatchers == 2
\* Watch is called with depth MaxDepth.
MaxDepth == 1
\* ExportVCD is called with 0..MaxTraces traces.
MaxTraces == 3
\* Identifiers are compared for the signal indexes 0..MaxIndex.
MaxIndex == 200

Times == 1..MaxTime

\* The (mask, value) pairs passed to SampleAt: two signals, defined or not,
\* including value bits set outside the mask.
SampleInputs == {<<0, 1>>, <<1, 0>>, <<1, 1>>, <<3, 2>>}

\* The signal indices passed to Watch: two valid ones, two invalid ones.
SigInputs == {-1, 0, 1, 64}

--------------------------------------------------------------------------
(* uint64 arithmetic. *)

RECURSIVE And(_, _)
And(a, b) ==
    IF a = 0 \/ b = 0 THEN 0
    ELSE (a % 2) * (b % 2) + 2 * And(a \div 2, b \div 2)

RECURSIVE Or(_, _)
Or(a, b) ==
    IF a = 0 THEN b
    ELSE IF b = 0 THEN a
    ELSE (IF a % 2 = 1 \/ b % 2 = 1 THEN 1 ELSE 0) + 2 * Or(a \div 2, b \div 2)

RECURSIVE Xor(_, _)
Xor(a, b) ==
    IF a = 0 THEN b
    ELSE IF b = 0 THEN a
    ELSE ((a + b) % 2) + 2 * Xor(a \div 2, b \div 2)

\* a << n, for the shifts that stay below 2^64 (the masks used here are small).
Shl(a, n) == a * 2 ^ n

--------------------------------------------------------------------------
(* Values. *)

Sample(when, mask, value) == [When |-> when, Mask |-> mask, Value |-> value]

ZeroSample == Sample(0, 0, 0)

Event(when, on) == [When |-> when, On |-> on]

ErrInvalidSignalIndex == "invalid signal index, want [0,64)"
ErrUnknownWatcher == "unknown watcher"
ErrNoTraceData == "no trace data"
Nil == "nil"
Panic == "panic"

\* The keys of the changes map that Watch can create with SigInputs.
WatchMasks == {Shl(1, sig) : sig \in {s \in SigInputs : s >= 0 /\ s < 64}}

\* The nil *Trace.
NilTrace == [nil |-> TRUE]

\* make(map[int]string)
NoLabels == [sig \in {} |-> ""]

\* The zero sync.Mutex: nobody holds it.
Unlocked == ""

\* t.mu.Lock() returns at once: t.mu is free. An operation that takes t.mu,
\* runs and releases it is one step from a state where t.mu is free.
CanLock(t) == t.mu = Unlocked

\* A nil Trace for no samples; else the Trace, its module name not set.
NewTrace(samples) ==
    IF samples = 0 THEN NilTrace
    ELSE [module     |-> "",
          mu         |-> Unlocked,
          maxSamples |-> samples,
          samples    |-> [i \in 1..samples |-> ZeroSample],
          cursor     |-> 0,
          fullMask   |-> 0,
          labels     |-> NoLabels,
          changes    |-> [m \in WatchMasks |-> <<>>]]

\* make(chan Event, depth)
MakeChan(depth) == [buf |-> <<>>, depth |-> depth, closed |-> FALSE]

--------------------------------------------------------------------------
(* The last call. Fields an operation does not use are 0. *)

Op(op, now, mask, value, sig, ch, err) ==
    [op |-> op, now |-> now, mask |-> mask, value |-> value,
     sig |-> sig, ch |-> ch, err |-> err]

\* A panic ends the program.
Running == lastOp.err # Panic

--------------------------------------------------------------------------
(* Trace.SampleAt *)

\* now.After(when)
After(now, when) == now > when

\* s := t.samples[(t.cursor + t.maxSamples - 1) % t.maxSamples]
LastSample(t) == t.samples[((t.cursor + t.maxSamples - 1) % t.maxSamples) + 1]

\* Rejected with now.Before(s.When) in place of !now.After(s.When).
RejectedIfBefore(t, now, mask, value) ==
    LET s == LastSample(t) IN
    /\ t.cursor # 0
    /\ \/ s.Mask = mask /\ s.Value = value
       \/ now < s.When

\* Rejected without the test of the time.
RejectedIfSame(t, now, mask, value) ==
    LET s == LastSample(t) IN
    /\ t.cursor # 0
    /\ s.Mask = mask /\ s.Value = value

\* The early return of SampleAt.
Rejected(t, now, mask, value) ==
    LET s == LastSample(t) IN
    /\ t.cursor # 0
    /\ \/ s.Mask = mask /\ s.Value = value
       \/ ~After(now, s.When)

\* Store with t.fullMask = mask in place of t.fullMask |= mask.
StoreAssigningMask(t, now, mask, value) ==
    [t EXCEPT !.samples[(t.cursor % t.maxSamples) + 1] = Sample(now, mask, value),
              !.fullMask = mask,
              !.cursor = @ + 1]

\* The write of the ring slot, of fullMask and of the cursor.
Store(t, now, mask, value) ==
    [t EXCEPT !.samples[(t.cursor % t.maxSamples) + 1] = Sample(now, mask, value),
              !.fullMask = Or(@, mask),
              !.cursor = @ + 1]

\* select { case ch <- ev: default: } on a channel that is open.
TrySend(c, ev) ==
    IF Len(c.buf) < c.depth THEN [c EXCEPT !.buf = Append(@, ev)] ELSE c

\* SendAll that returns at the first channel that is full.
RECURSIVE SendAllUntilFull(_, _, _)
SendAllUntilFull(cs, evs, ev) ==
    IF evs = <<>> THEN cs
    ELSE IF Len(cs[Head(evs)].buf) >= cs[Head(evs)].depth THEN cs
    ELSE SendAllUntilFull([cs EXCEPT ![Head(evs)] = TrySend(@, ev)], Tail(evs), ev)

\* for _, ch := range evs { ... }
RECURSIVE SendAll(_, _, _)
SendAll(cs, evs, ev) ==
    IF evs = <<>> THEN cs
    ELSE SendAll([cs EXCEPT ![Head(evs)] = TrySend(@, ev)], Tail(evs), ev)

\* Delta of the values alone, the masks left out.
DeltaOfValue(s, mask, value) == Xor(s.Value, value)

\* delta := (s.Mask & s.Value) ^ (mask & value)
Delta(s, mask, value) == Xor(And(s.Mask, s.Value), And(mask, value))

\* OnOf without the mask: on := m&value != 0.
OnOfValue(m, mask, value) == And(m, value) # 0

\* on := m&mask&value != 0
OnOf(m, mask, value) == And(And(m, mask), value) # 0

\* for m, evs := range t.changes { ... }, the keys taken in any order.
RECURSIVE NotifyMasks(_, _, _, _, _, _, _)
NotifyMasks(cs, t, ms, delta, now, mask, value) ==
    IF ms = {} THEN cs
    ELSE LET m == CHOOSE x \in ms : TRUE
             next == IF And(m, delta) = 0 THEN cs
                     ELSE SendAll(cs, t.changes[m], Event(now, OnOf(m, mask, value)))
         IN NotifyMasks(next, t, ms \ {m}, delta, now, mask, value)

\* The channels after the notification of an accepted sample.
Notify(t, cs, now, mask, value) ==
    LET delta == Delta(LastSample(t), mask, value) IN
    IF t.cursor = 0 \/ delta # 0
    THEN NotifyMasks(cs, t, DOMAIN t.changes, delta, now, mask, value)
    ELSE cs

\* A send on a closed channel panics.
SendPanics(t, cs, mask, value) ==
    LET delta == Delta(LastSample(t), mask, value) IN
    \E m \in DOMAIN t.changes :
        /\ And(m, delta) # 0
        /\ \E k \in 1..Len(t.changes[m]) : cs[t.changes[m][k]].closed

\* The body of SampleAt, for the call op of the user.
SampleAtCalled(op, i, now, mask, value) ==
    LET t == traces[i] IN
    /\ Running
    /\ IF t = NilTrace THEN TRUE ELSE CanLock(t)
    /\ UNCHANGED exportVars
    /\ IF t = NilTrace \/ Rejected(t, now, mask, value)
       THEN /\ UNCHANGED traceVars
            /\ lastOp' = Op(op, now, mask, value, 0, 0, Nil)
       ELSE IF SendPanics(t, chans, mask, value)
       THEN /\ traces' = [traces EXCEPT ![i].samples[(t.cursor % t.maxSamples) + 1] =
                              Sample(now, mask, value)]
            /\ accepted' = [accepted EXCEPT ![i] = Append(@, Sample(now, mask, value))]
            /\ UNCHANGED chans
            /\ lastOp' = Op(op, now, mask, value, 0, 0, Panic)
       ELSE /\ traces' = [traces EXCEPT ![i] = Store(t, now, mask, value)]
            /\ chans' = Notify(t, chans, now, mask, value)
            /\ accepted' = [accepted EXCEPT ![i] = Append(@, Sample(now, mask, value))]
            /\ lastOp' = Op(op, now, mask, value, 0, 0, Nil)

SampleAt(i, now, mask, value) == SampleAtCalled("SampleAt", i, now, mask, value)

\* Trace.Sample: t.SampleAt(time.Now(), mask, value), the clock reading now.
TraceSample(i, now, mask, value) == SampleAtCalled("Sample", i, now, mask, value)

--------------------------------------------------------------------------
(* Trace.Module and Trace.Label: neither takes t.mu. A write they make while
   cacheVCDDetail holds t.mu and reads the same field is a data race: the
   reader sees the field before or after the write, or the program ends
   (a torn string; fatal error: concurrent map read and map write). *)

\* cacheVCDDetail is at work on t.
Races(t) == t.mu = "cacheVCDDetail"

Module(i, name) ==
    /\ Running
    /\ UNCHANGED <<chans, accepted>>
    /\ UNCHANGED exportVars
    /\ IF traces[i] = NilTrace
       THEN /\ UNCHANGED traces
            /\ lastOp' = Op("Module", 0, 0, 0, 0, 0, Nil)
       ELSE \/ /\ traces' = [traces EXCEPT ![i].module = name]
               /\ lastOp' = Op("Module", 0, 0, 0, 0, 0, Nil)
            \/ /\ Races(traces[i])
               /\ UNCHANGED traces
               /\ lastOp' = Op("Module", 0, 0, 0, 0, 0, Panic)

\* delete(t.labels, sig)
Deleted(labels, sig) == [k \in DOMAIN labels \ {sig} |-> labels[k]]

\* t.labels[sig] = label
Labelled(labels, sig, label) ==
    [k \in DOMAIN labels \cup {sig} |-> IF k = sig THEN label ELSE labels[k]]

Label(i, sig, label) ==
    /\ Running
    /\ UNCHANGED <<chans, accepted>>
    /\ UNCHANGED exportVars
    /\ IF traces[i] = NilTrace \/ sig < 0 \/ sig >= 64
       THEN /\ UNCHANGED traces
            /\ lastOp' = Op("Label", 0, 0, 0, sig, 0, ErrInvalidSignalIndex)
       ELSE \/ /\ traces' = [traces EXCEPT ![i].labels =
                                 IF label = "" THEN Deleted(@, sig)
                                 ELSE Labelled(@, sig, label)]
               /\ lastOp' = Op("Label", 0, 0, 0, sig, 0, Nil)
            \/ /\ Races(traces[i])
               /\ UNCHANGED traces
               /\ lastOp' = Op("Label", 0, 0, 0, sig, 0, Panic)

--------------------------------------------------------------------------
(* Trace.Watch, Trace.Cancel and the reader of a watch channel. *)

Watch(i, sig, depth) ==
    /\ Running
    /\ Len(chans) < MaxWatchers
    /\ IF traces[i] = NilTrace \/ sig < 0 \/ sig >= 64 THEN TRUE ELSE CanLock(traces[i])
    /\ UNCHANGED exportVars
    /\ IF traces[i] = NilTrace \/ sig < 0 \/ sig >= 64
       THEN /\ UNCHANGED traceVars
            /\ lastOp' = Op("Watch", 0, 0, 0, sig, 0, ErrInvalidSignalIndex)
       ELSE LET mask == Shl(1, sig)
                ch == Len(chans) + 1
            IN /\ chans' = Append(chans, MakeChan(depth))
               /\ traces' = [traces EXCEPT ![i].changes[mask] = Append(@, ch)]
               /\ UNCHANGED accepted
               /\ lastOp' = Op("Watch", 0, 0, 0, sig, ch, Nil)

\* The places of channel ch in the registrations of t.
Places(t, ch) ==
    {<<m, k>> \in (DOMAIN t.changes) \X (1..MaxWatchers) :
        k <= Len(t.changes[m]) /\ t.changes[m][k] = ch}

\* Without that keeps chs[:k] only.
WithoutTail(chs, k) == SubSeq(chs, 1, k - 1)

\* append(chs[:k], chs[k+1:]...), k counted from 1.
Without(chs, k) == SubSeq(chs, 1, k - 1) \o SubSeq(chs, k + 1, Len(chs))

\* The first match of the inner loop, in a key the range visits.
FirstPlaces(t, ch) ==
    {p \in Places(t, ch) : \A q \in Places(t, ch) : q[1] = p[1] => p[2] <= q[2]}

\* Removed that leaves the registrations as they are.
RemovedNothing(t, p) == t

\* The registrations after Cancel removed the one at place p.
Removed(t, p) == [t EXCEPT !.changes[p[1]] = Without(@, p[2])]

\* ch = 0 is a channel that no Watch of this trace returned. On a nil Trace
\* t.mu.Lock() dereferences the nil pointer: a run-time panic.
Cancel(i, ch) ==
    LET t == traces[i] IN
    /\ Running
    /\ IF t = NilTrace THEN TRUE ELSE CanLock(t)
    /\ UNCHANGED exportVars
    /\ IF t = NilTrace
       THEN /\ UNCHANGED traceVars
            /\ lastOp' = Op("Cancel", 0, 0, 0, 0, ch, Panic)
       ELSE IF Places(t, ch) = {}
       THEN /\ UNCHANGED traceVars
            /\ lastOp' = Op("Cancel", 0, 0, 0, 0, ch, ErrUnknownWatcher)
       ELSE \E p \in FirstPlaces(t, ch) :
               /\ traces' = [traces EXCEPT ![i] = Removed(t, p)]
               /\ UNCHANGED accepted
               /\ IF chans[ch].closed
                  THEN /\ UNCHANGED chans
                       /\ lastOp' = Op("Cancel", 0, 0, 0, 0, ch, Panic)
                  ELSE /\ chans' = [chans EXCEPT ![ch].closed = TRUE]
                       /\ lastOp' = Op("Cancel", 0, 0, 0, 0, ch, Nil)

\* The owner of a watch channel takes the next buffered Event from it.
Recv(ch) ==
    /\ Running
    /\ chans[ch].buf # <<>>
    /\ chans' = [chans EXCEPT ![ch].buf = Tail(@)]
    /\ UNCHANGED <<traces, accepted>>
    /\ UNCHANGED exportVars
    /\ lastOp' = Op("Recv", 0, 0, 0, 0, ch, Nil)

--------------------------------------------------------------------------
(* keyOf and Trace.cacheVCDDetail *)

\* The number of characters keyOf draws from, and the first of them.
digit == 127 - 33
base == 33

\* The characters of keyOf(j), by their codes.
RECURSIVE keyOf(_)
keyOf(j) ==
    LET c == j % digit IN
    IF j \div digit = 0 THEN <<base + c>>
    ELSE <<base + c>> \o keyOf(j \div digit)

\* lab := t.labels[i]; if lab == "" { lab = fmt.Sprintf("sig%d", i) }
LabOf(labels, i) ==
    IF i \in DOMAIN labels /\ labels[i] # "" THEN <<labels[i]>> ELSE <<"sig", i>>

\* The loop that gives every bit below fullMask its signal, from bit i on.
RECURSIVE SigsFrom(_, _, _, _, _)
SigsFrom(labels, fullMask, i, bit, j) ==
    IF ~(bit # 0 /\ bit < fullMask) THEN <<>>
    ELSE IF And(fullMask, bit) # 0
         THEN <<[mask |-> bit, ch |-> keyOf(j), lab |-> LabOf(labels, i)]>>
                  \o SigsFrom(labels, fullMask, i + 1, Shl(bit, 1), j + 1)
         ELSE SigsFrom(labels, fullMask, i + 1, Shl(bit, 1), j)

\* Working with the ring copied from its first slot also after it wrapped.
WorkingUnrotated(t, samples, start) == SubSeq(t.samples, 1, samples)

\* The two copy() calls that put the ring in the order it was written.
Working(t, samples, start) ==
    IF samples # t.cursor
    THEN SubSeq(t.samples, start + 1, t.maxSamples) \o SubSeq(t.samples, 1, start)
    ELSE SubSeq(t.samples, 1, samples)

\* The VCDDetail of trace t, its signals numbered from index on.
cacheVCDDetail(t, index) ==
    LET samples == IF t.cursor > t.maxSamples THEN t.maxSamples ELSE t.cursor
        start == (t.cursor + t.maxSamples - samples) % t.maxSamples
    IN [module   |-> IF t.module # "" THEN t.module ELSE "ports",
        fullMask |-> t.fullMask,
        samples  |-> samples,
        working  |-> Working(t, samples, start),
        start    |-> start,
        sigs     |-> SigsFrom(t.labels, t.fullMask, 0, 1, index)]

\* The index cacheVCDDetail returns: the next free one.
NextIndex(v, index) == index + Len(v.sigs)

\* A caller takes a snapshot of trace i.
Snapshot(i) ==
    /\ Running
    /\ CanLock(traces[i])
    /\ details' = <<cacheVCDDetail(traces[i], 0)>>
    /\ lastOp' = Op("cacheVCDDetail", 0, 0, 0, 0, 0, Nil)
    /\ UNCHANGED <<traceVars, export, merge, out, lines>>

--------------------------------------------------------------------------
(* ExportVCD, up to the error it returns. *)

\* Before with then.After(earliest).
BeforeAsAfter(then, earliest) == then > earliest

\* Before that never holds: earliest stays the start of the first detail.
BeforeNever(then, earliest) == FALSE

\* then.Before(earliest)
Before(then, earliest) == then < earliest

\* Collect with t.cacheVCDDetail(0) in place of t.cacheVCDDetail(j).
RECURSIVE CollectFromZero(_, _, _, _, _)
CollectFromZero(ts, i, ds, earliest, j) ==
    IF i > Len(ts) THEN [details |-> ds, earliest |-> earliest, j |-> j]
    ELSE LET v == cacheVCDDetail(ts[i], 0)
             k == j + Len(v.sigs)
         IN IF k = j THEN CollectFromZero(ts, i + 1, ds, earliest, j)
            ELSE LET then == v.working[1].When
                 IN CollectFromZero(ts, i + 1, Append(ds, v),
                                    IF j = 0 \/ then < earliest THEN then ELSE earliest,
                                    k)

\* The loop over the traces: the details kept, the earliest start and the
\* next free signal index, from trace i on.
RECURSIVE Collect(_, _, _, _, _)
Collect(ts, i, ds, earliest, j) ==
    IF i > Len(ts) THEN [details |-> ds, earliest |-> earliest, j |-> j]
    ELSE LET v == cacheVCDDetail(ts[i], j)
             k == NextIndex(v, j)
         IN IF k = j THEN Collect(ts, i + 1, ds, earliest, j)
            ELSE LET then == v.working[1].When
                 IN Collect(ts, i + 1, Append(ds, v),
                            IF j = 0 \/ Before(then, earliest) THEN then ELSE earliest,
                            k)

--------------------------------------------------------------------------
(* mergeVCD: the scan of one VCDDetail. *)

Datum(stamp, line) == [stamp |-> stamp, line |-> line, src |-> <<0, 0>>]

NoDatum == Datum(0, <<>>)

\* uint(s.When.Sub(earliest) / tScale), the division rounding towards zero.
Stamp(when, earliest, tScale) ==
    LET d == when - earliest IN
    IF d >= 0 THEN d \div tScale ELSE -((-d) \div tScale)

\* SigDatums that tests dMask alone also for a signal that is defined.
RECURSIVE SigDatumsOfMask(_, _, _, _, _, _)
SigDatumsOfMask(sigs, s, first, dMask, anyDelta, stamp) ==
    IF sigs = <<>> THEN <<>>
    ELSE LET sig == Head(sigs)
             here ==
                 IF first \/ And(sig.mask, dMask) # 0
                 THEN <<Datum(stamp,
                              <<IF And(sig.mask, s.Mask) = 0 THEN "x"
                                ELSE IF And(sig.mask, s.Value) # 0 THEN "1" ELSE "0",
                                sig.ch>>)>>
                 ELSE <<>>
         IN here \o SigDatumsOfMask(Tail(sigs), s, first, dMask, anyDelta, stamp)

\* SigDatums that sends x for the first sample only.
RECURSIVE SigDatumsWithoutX(_, _, _, _, _, _)
SigDatumsWithoutX(sigs, s, first, dMask, anyDelta, stamp) ==
    IF sigs = <<>> THEN <<>>
    ELSE LET sig == Head(sigs)
             here ==
                 IF And(sig.mask, s.Mask) = 0
                 THEN IF first
                      THEN <<Datum(stamp, <<"x", sig.ch>>)>>
                      ELSE <<>>
                 ELSE IF first \/ And(sig.mask, anyDelta) # 0
                      THEN <<Datum(stamp,
                                   <<IF And(sig.mask, s.Value) # 0 THEN "1" ELSE "0",
                                     sig.ch>>)>>
                      ELSE <<>>
         IN here \o SigDatumsWithoutX(Tail(sigs), s, first, dMask, anyDelta, stamp)

\* The Datums of sample s for the signals sigs, in their order.
RECURSIVE SigDatums(_, _, _, _, _, _)
SigDatums(sigs, s, first, dMask, anyDelta, stamp) ==
    IF sigs = <<>> THEN <<>>
    ELSE LET sig == Head(sigs)
             here ==
                 IF And(sig.mask, s.Mask) = 0
                 THEN IF first \/ And(sig.mask, dMask) # 0
                      THEN <<Datum(stamp, <<"x", sig.ch>>)>>
                      ELSE <<>>
                 ELSE IF first \/ And(sig.mask, anyDelta) # 0
                      THEN <<Datum(stamp,
                                   <<IF And(sig.mask, s.Value) # 0 THEN "1" ELSE "0",
                                     sig.ch>>)>>
                      ELSE <<>>
         IN here \o SigDatums(Tail(sigs), s, first, dMask, anyDelta, stamp)

\* The Datums of the samples i.. of v.working (i counted from 1).
RECURSIVE ScanFrom(_, _, _, _, _, _)
ScanFrom(v, i, lastVal, lastMask, earliest, tScale) ==
    IF i > v.samples THEN <<>>
    ELSE LET s == v.working[i]
             delta == Xor(lastVal, s.Value)
             dMask == Xor(lastMask, s.Mask)
             anyDelta == Or(dMask, delta)
             here == IF i = 1 \/ anyDelta # 0
                     THEN SigDatums(v.sigs, s, i = 1, dMask, anyDelta,
                                    Stamp(s.When, earliest, tScale))
                     ELSE <<>>
         IN here \o ScanFrom(v, i + 1, s.Value, s.Mask, earliest, tScale)

\* What the goroutine of details[leaf] sends, each Datum marked with its
\* place <<leaf, n>> in that sequence.
LeafDatums(ds, leaf, earliest, tScale) ==
    LET raw == ScanFrom(ds[leaf], 1, 0, 0, earliest, tScale)
    IN [n \in 1..Len(raw) |-> [raw[n] EXCEPT !.src = <<leaf, n>>]]

--------------------------------------------------------------------------
(* mergeVCD: the tree of goroutines. The goroutine that merges
   details[lo..hi] is named <<lo, hi>>; its channel ch has no buffer, so a
   send and the receive that takes it are one step. *)

\* j := (k + 1) / 2; details[:j] and details[j:]
Left(n) == <<n[1], n[1] + ((n[2] - n[1] + 2) \div 2) - 1>>
Right(n) == <<n[1] + ((n[2] - n[1] + 2) \div 2), n[2]>>

IsLeaf(n) == n[1] = n[2]

RECURSIVE NodesOf(_)
NodesOf(n) ==
    IF IsLeaf(n) THEN {n} ELSE {n} \cup NodesOf(Left(n)) \cup NodesOf(Right(n))

Root == <<1, Len(details)>>

\* A goroutine: where it is (none: not started by its parent yet; start;
\* recvA, recvB, send: blocked there; done: ch closed), the next Datum of a
\* scan, and the variables a, b (not nil), okA, okB, lastA, lastB of a merge.
NoNode ==
    [pc |-> "none", pos |-> 0, a |-> FALSE, b |-> FALSE,
     okA |-> FALSE, okB |-> FALSE, lastA |-> NoDatum, lastB |-> NoDatum]

\* LeftFirst with < in place of <=.
LeftFirstIfEarlier(lastA, lastB) == lastA.stamp < lastB.stamp

\* LeftFirst with the comparison turned around.
LeftFirstIfLater(lastA, lastB) == lastA.stamp >= lastB.stamp

\* if lastA.stamp <= lastB.stamp
LeftFirst(lastA, lastB) == lastA.stamp <= lastB.stamp

\* The side whose Datum a merge sends next.
Pick(ns) ==
    IF ns.okA /\ ns.okB
    THEN IF LeftFirst(ns.lastA, ns.lastB) THEN "A" ELSE "B"
    ELSE IF ns.okA THEN "A" ELSE "B"

\* LoopGoesOn with && in place of ||.
LoopWhileBoth(ns) == ns.a /\ ns.b

\* for a != nil || b != nil
LoopGoesOn(ns) == ns.a \/ ns.b

\* The body of the loop of a merge, up to the place where it blocks next.
RECURSIVE StageA(_)
RECURSIVE StageB(_)
RECURSIVE StageSend(_)
RECURSIVE LoopTop(_)
StageA(ns) == IF ns.a /\ ~ns.okA THEN [ns EXCEPT !.pc = "recvA"] ELSE StageB(ns)
StageB(ns) == IF ns.b /\ ~ns.okB THEN [ns EXCEPT !.pc = "recvB"] ELSE StageSend(ns)
StageSend(ns) == IF ns.okA \/ ns.okB THEN [ns EXCEPT !.pc = "send"] ELSE LoopTop(ns)
LoopTop(ns) == IF LoopGoesOn(ns) THEN StageA(ns) ELSE [ns EXCEPT !.pc = "done"]

Scan(leaf) == LeafDatums(details, leaf, export.earliest, export.tScale)

\* The Datum goroutine n is blocked sending.
Pending(n) ==
    IF IsLeaf(n) THEN Scan(n[1])[merge[n].pos]
    ELSE IF Pick(merge[n]) = "A" THEN merge[n].lastA ELSE merge[n].lastB

\* Goroutine n after its send was taken.
AfterSend(n) ==
    LET ns == merge[n] IN
    IF IsLeaf(n)
    THEN IF ns.pos < Len(Scan(n[1]))
         THEN [ns EXCEPT !.pos = @ + 1]
         ELSE [ns EXCEPT !.pos = @ + 1, !.pc = "done"]
    ELSE IF Pick(ns) = "A"
         THEN LoopTop([ns EXCEPT !.okA = FALSE])
         ELSE LoopTop([ns EXCEPT !.okB = FALSE])

\* Goroutine p after lastX, okX = <-x gave it (d, ok).
AfterRecv(p, side, d, ok) ==
    LET ns == merge[p] IN
    IF side = "A"
    THEN StageB([ns EXCEPT !.lastA = d, !.okA = ok, !.a = ok])
    ELSE StageSend([ns EXCEPT !.lastB = d, !.okB = ok, !.b = ok])

Child(p, side) == IF side = "A" THEN Left(p) ELSE Right(p)

WaitsFor(p, side) ==
    /\ ~IsLeaf(p)
    /\ merge[p].pc = (IF side = "A" THEN "recvA" ELSE "recvB")

\* The first step of goroutine n: a scan reaches its first send, a merge
\* starts its two halves and waits for the left one.
MergeStart(n) ==
    /\ merge[n].pc = "start"
    /\ IF IsLeaf(n)
       THEN merge' = [merge EXCEPT ![n] =
                         IF Len(Scan(n[1])) > 0
                         THEN [@ EXCEPT !.pc = "send", !.pos = 1]
                         ELSE [@ EXCEPT !.pc = "done"]]
       ELSE merge' = [merge EXCEPT
                         ![n] = LoopTop([@ EXCEPT !.a = TRUE, !.b = TRUE]),
                         ![Left(n)] = [@ EXCEPT !.pc = "start"],
                         ![Right(n)] = [@ EXCEPT !.pc = "start"]]
    /\ UNCHANGED <<traceVars, lastOp, details, export, out, lines>>

\* ch <- d in the goroutine of one half, lastX, okX = <-x in its parent p.
Handoff(p, side) ==
    LET c == Child(p, side) IN
    /\ WaitsFor(p, side)
    /\ merge[c].pc = "send"
    /\ merge' = [merge EXCEPT ![p] = AfterRecv(p, side, Pending(c), TRUE),
                              ![c] = AfterSend(c)]
    /\ UNCHANGED <<traceVars, lastOp, details, export, out, lines>>

\* lastX, okX = <-x on the closed channel of a half that has returned.
RecvClosed(p, side) ==
    /\ WaitsFor(p, side)
    /\ merge[Child(p, side)].pc = "done"
    /\ merge' = [merge EXCEPT ![p] = AfterRecv(p, side, NoDatum, FALSE)]
    /\ UNCHANGED <<traceVars, lastOp, details, export, out, lines>>

--------------------------------------------------------------------------
(* ExportVCD and its goroutine. *)

\* i, j and v are the trace, the next signal index and the VCDDetail of the
\* loop over the traces, where its steps are taken one by one.
NoExport ==
    [pc |-> "none", earliest |-> 0, tScale |-> 0, started |-> FALSE, stamp |-> 0,
     i |-> 0, j |-> 0, v |-> <<>>]

\* The lines of the header, the caller reading every one.
RECURSIVE VarLines(_)
VarLines(sigs) ==
    IF sigs = <<>> THEN <<>>
    ELSE << <<"$var wire 1", Head(sigs).ch, Head(sigs).lab>> >> \o VarLines(Tail(sigs))

RECURSIVE ScopeLines(_, _)
ScopeLines(ds, i) ==
    IF i > Len(ds) THEN <<>>
    ELSE << <<"$scope module app">>, <<"$scope module", ds[i].module>> >>
             \o VarLines(ds[i].sigs)
             \o << <<"$upscope $end">>, <<"$upscope $end">> >>
             \o ScopeLines(ds, i + 1)

HeaderLines(ds, earliest, tScale) ==
    << <<"$date">>, <<"\t", earliest>>, <<"$end">>,
       <<"$version">>, <<"\t", "dumper">>, <<"$end">>,
       <<"$timescale">>, <<"\t", tScale>>, <<"$end">> >>
        \o ScopeLines(ds, 1)
        \o << <<"$enddefinitions $end">> >>

\* DatumLines with `if datum.stamp != stamp` in place of
\* `if !started || datum.stamp != stamp`.
DatumLinesIfStampDiffers(e, datum) ==
    (IF datum.stamp # e.stamp
     THEN << <<"#", datum.stamp>> >>
              \o (IF ~e.started THEN << <<"$dumpvars">> >> ELSE <<>>)
     ELSE <<>>)
        \o <<datum.line>>

\* The lines the loop over the merged Datums writes for datum.
DatumLines(e, datum) ==
    (IF ~e.started \/ datum.stamp # e.stamp
     THEN << <<"#", datum.stamp>> >>
              \o (IF ~e.started THEN << <<"$dumpvars">> >> ELSE <<>>)
     ELSE <<>>)
        \o <<datum.line>>

\* The call of ExportVCD, to its return.
ExportVCD(tScale, ts) ==
    LET got == Collect(ts, 1, <<>>, 0, 0) IN
    /\ Running
    /\ \A i \in 1..Len(ts) : CanLock(ts[i])
    /\ export.pc = "none"
    /\ lastOp.op # "ExportVCD"
    /\ IF got.j = 0
       THEN /\ lastOp' = Op("ExportVCD", 0, 0, 0, 0, 0, ErrNoTraceData)
            /\ UNCHANGED <<details, export, merge>>
       ELSE /\ lastOp' = Op("ExportVCD", 0, 0, 0, 0, 0, Nil)
            /\ details' = got.details
            /\ export' = [NoExport EXCEPT !.pc = "header", !.earliest = got.earliest,
                                          !.tScale = tScale]
            /\ merge' = [n \in NodesOf(<<1, Len(got.details)>>) |-> NoNode]
    /\ UNCHANGED <<traceVars, out, lines>>

\* The goroutine of ExportVCD writes the header and calls mergeVCD.
ExportHeader ==
    /\ export.pc = "header"
    /\ lines' = lines \o HeaderLines(details, export.earliest, export.tScale)
    /\ export' = [export EXCEPT !.pc = "merge"]
    /\ merge' = [merge EXCEPT ![Root] = [@ EXCEPT !.pc = "start"]]
    /\ UNCHANGED <<traceVars, lastOp, details, out>>

\* for datum := range mergeVCD(...): one Datum and its lines.
ExportRecv ==
    /\ export.pc = "merge"
    /\ merge[Root].pc = "send"
    /\ LET datum == Pending(Root) IN
       /\ out' = Append(out, datum)
       /\ lines' = lines \o DatumLines(export, datum)
       /\ export' = [export EXCEPT !.started = TRUE, !.stamp = datum.stamp]
    /\ merge' = [merge EXCEPT ![Root] = AfterSend(Root)]
    /\ UNCHANGED <<traceVars, lastOp, details>>

\* The range ends when mergeVCD closes its channel; the lines end too.
ExportClose ==
    /\ export.pc = "merge"
    /\ merge[Root].pc = "done"
    /\ export' = [export EXCEPT !.pc = "closed"]
    /\ UNCHANGED <<traceVars, lastOp, details, merge, out, lines>>

--------------------------------------------------------------------------
(* ExportVCD, the steps of its loop over the traces taken one by one, so
   that the calls of other goroutines come between them. *)

\* ExportVCD is called: var details; j := 0.
ExportCall(tScale) ==
    /\ Running
    /\ export.pc = "none"
    /\ export' = [NoExport EXCEPT !.pc = "loop", !.tScale = tScale, !.i = 1]
    /\ details' = <<>>
    /\ UNCHANGED <<traceVars, lastOp, merge, out, lines>>

\* cacheVCDDetail of the next trace: t.mu.Lock().
CacheLock ==
    /\ Running
    /\ export.pc = "loop"
    /\ export.i <= Len(traces)
    /\ CanLock(traces[export.i])
    /\ traces' = [traces EXCEPT ![export.i].mu = "cacheVCDDetail"]
    /\ export' = [export EXCEPT !.pc = "locked"]
    /\ UNCHANGED <<chans, accepted, lastOp, details, merge, out, lines>>

\* cacheVCDDetail: the module name and the copy of the ring.
CacheCopy ==
    /\ Running
    /\ export.pc = "locked"
    /\ export' = [export EXCEPT !.pc = "copied",
                                !.v = [cacheVCDDetail(traces[export.i], export.j)
                                          EXCEPT !.sigs = <<>>]]
    /\ UNCHANGED <<traceVars, lastOp, details, merge, out, lines>>

\* CacheSigs that returns without t.mu.Unlock().
CacheSigsKeepingLock ==
    LET t == traces[export.i]
        j == export.j
        v == [export.v EXCEPT !.sigs = SigsFrom(t.labels, export.v.fullMask, 0, 1, j)]
        k == NextIndex(v, j)
        then == v.working[1].When
    IN /\ Running
       /\ export.pc = "copied"
       /\ IF k = j
          THEN /\ UNCHANGED details
               /\ export' = [export EXCEPT !.pc = "loop", !.i = @ + 1, !.v = <<>>]
          ELSE /\ details' = Append(details, v)
               /\ export' = [export EXCEPT
                                 !.pc = "loop", !.i = @ + 1, !.v = <<>>, !.j = k,
                                 !.earliest = IF j = 0 \/ Before(then, export.earliest)
                                              THEN then ELSE @]
       /\ UNCHANGED <<traceVars, lastOp, merge, out, lines>>

\* cacheVCDDetail: the loop over the bits, with the labels as they are now,
\* the return that releases t.mu, and the rest of the body of the loop of
\* ExportVCD.
CacheSigs ==
    LET t == traces[export.i]
        j == export.j
        v == [export.v EXCEPT !.sigs = SigsFrom(t.labels, export.v.fullMask, 0, 1, j)]
        k == NextIndex(v, j)
        then == v.working[1].When
    IN /\ Running
       /\ export.pc = "copied"
       /\ traces' = [traces EXCEPT ![export.i].mu = Unlocked]
       /\ IF k = j
          THEN /\ UNCHANGED details
               /\ export' = [export EXCEPT !.pc = "loop", !.i = @ + 1, !.v = <<>>]
          ELSE /\ details' = Append(details, v)
               /\ export' = [export EXCEPT
                                 !.pc = "loop", !.i = @ + 1, !.v = <<>>, !.j = k,
                                 !.earliest = IF j = 0 \/ Before(then, export.earliest)
                                              THEN then ELSE @]
       /\ UNCHANGED <<chans, accepted, lastOp, merge, out, lines>>

\* After the loop: ErrNoTraceData, or the channel and the goroutine.
ExportReturn ==
    /\ Running
    /\ export.pc = "loop"
    /\ export.i > Len(traces)
    /\ IF export.j = 0
       THEN /\ lastOp' = Op("ExportVCD", 0, 0, 0, 0, 0, ErrNoTraceData)
            /\ export' = NoExport
            /\ UNCHANGED merge
       ELSE /\ lastOp' = Op("ExportVCD", 0, 0, 0, 0, 0, Nil)
            /\ export' = [NoExport EXCEPT !.pc = "header", !.earliest = export.earliest,
                                          !.tScale = export.tScale]
            /\ merge' = [n \in NodesOf(<<1, Len(details)>>) |-> NoNode]
    /\ UNCHANGED <<traceVars, details, out, lines>>

--------------------------------------------------------------------------
(* One trace, its producers, its watchers. *)

NoExportVars ==
    /\ details = <<>>
    /\ export = NoExport
    /\ merge = <<>>
    /\ out = <<>>
    /\ lines = <<>>

\* The times a producer passes: the last stored time, one tick before it and
\* one tick after it.
NowInputs(t) ==
    {now \in Times : now >= LastSample(t).When - 1 /\ now <= LastSample(t).When + 1}

DoSampleAt ==
    \E now \in NowInputs(traces[1]), in \in SampleInputs : SampleAt(1, now, in[1], in[2])

\* The producer of a watched trace: fewer pairs, and no time before the last
\* stored one.
WatchedInputs == {<<0, 1>>, <<1, 1>>, <<3, 2>>}

DoSampleAtWatched ==
    \E now \in {n \in NowInputs(traces[1]) : n >= LastSample(traces[1]).When},
       in \in WatchedInputs : SampleAt(1, now, in[1], in[2])

DoWatch == \E sig \in SigInputs : Watch(1, sig, MaxDepth)

DoCancel == \E ch \in 0..Len(chans) : Cancel(1, ch)

DoRecv == \E ch \in 1..Len(chans) : Recv(ch)

DoSnapshot == Snapshot(1)

\* A trace of any capacity, sampled and snapshot.
Init ==
    /\ \E samples \in 1..MaxCap : traces = <<NewTrace(samples)>>
    /\ chans = <<>>
    /\ accepted = << <<>> >>
    /\ lastOp = Op("NewTrace", 0, 0, 0, 0, 0, Nil)
    /\ NoExportVars

Next == DoSampleAt \/ DoSnapshot

Spec == Init /\ [][Next]_vars

\* A trace sampled while channels watch it.
InitWatch ==
    /\ traces = <<NewTrace(MaxCap)>>
    /\ chans = <<>>
    /\ accepted = << <<>> >>
    /\ lastOp = Op("NewTrace", 0, 0, 0, 0, 0, Nil)
    /\ NoExportVars

NextWatch == DoSampleAtWatched \/ DoWatch \/ DoCancel \/ DoRecv

SpecWatch == InitWatch /\ [][NextWatch]_vars

\* Watchers whose buffers have room for every Event of a run, read by
\* their owners after the run: what a buffer holds is what its owner
\* receives, in that order.
Deep == MaxTime + 1

DoWatchDeep == \E sig \in {x \in SigInputs : x >= 0 /\ x < 64} : Watch(1, sig, Deep)

NextBuffered == DoSampleAtWatched \/ DoWatchDeep \/ DoCancel

SpecBuffered == InitWatch /\ [][NextBuffered]_vars

--------------------------------------------------------------------------
(* Every method a user calls, on a Trace that may be nil. *)

ModuleInputs == {"", "bus"}

LabelInputs == {"", "clk"}

DoSampleAtCalls ==
    \E now \in Times, in \in WatchedInputs : SampleAt(1, now, in[1], in[2])

DoSample ==
    \E now \in Times, in \in WatchedInputs : TraceSample(1, now, in[1], in[2])

DoModule == \E name \in ModuleInputs : Module(1, name)

DoLabel == \E sig \in SigInputs, label \in LabelInputs : Label(1, sig, label)

\* NewTrace returned a Trace, or nil when it was asked for no samples.
InitCalls ==
    /\ \E samples \in 0..1 : traces = <<NewTrace(samples)>>
    /\ chans = <<>>
    /\ accepted = << <<>> >>
    /\ lastOp = Op("NewTrace", 0, 0, 0, 0, 0, Nil)
    /\ NoExportVars

NextCalls == DoSampleAtCalls \/ DoSample \/ DoModule \/ DoLabel \/ DoWatch \/ DoCancel

SpecCalls == InitCalls /\ [][NextCalls]_vars

--------------------------------------------------------------------------
(* The export of traces that were sampled before. *)

\* What producers did to the traces that are exported: NewTrace(cap) and
\* the SampleAt calls <<now, mask, value>> after it.
ExportScripts ==
    { [cap |-> 2, calls |-> <<>>],
      [cap |-> 2, calls |-> << <<1, 0, 1>> >>],
      [cap |-> 2, calls |-> << <<1, 1, 1>> >>],
      [cap |-> 2, calls |-> << <<1, 3, 1>>, <<2, 3, 2>> >>],
      [cap |-> 3, calls |-> << <<2, 3, 1>>, <<3, 1, 1>>, <<4, 1, 3>> >>],
      [cap |-> 1, calls |-> << <<3, 2, 2>>, <<3, 3, 3>>, <<4, 7, 4>> >>] }

TScales == {1, 2}

\* The trace and the samples stored after the calls n.. of a script.
RECURSIVE RunCalls(_, _, _, _)
RunCalls(t, acc, calls, n) ==
    IF n > Len(calls) THEN [t |-> t, acc |-> acc]
    ELSE LET c == calls[n] IN
         IF Rejected(t, c[1], c[2], c[3])
         THEN RunCalls(t, acc, calls, n + 1)
         ELSE RunCalls(Store(t, c[1], c[2], c[3]),
                       Append(acc, Sample(c[1], c[2], c[3])), calls, n + 1)

RunScript(sc) == RunCalls(NewTrace(sc.cap), <<>>, sc.calls, 1)

InitExport ==
    /\ \E n \in 0..MaxTraces : \E scs \in [1..n -> ExportScripts] :
          /\ traces = [i \in 1..n |-> RunScript(scs[i]).t]
          /\ accepted = [i \in 1..n |-> RunScript(scs[i]).acc]
    /\ chans = <<>>
    /\ lastOp = Op("NewTrace", 0, 0, 0, 0, 0, Nil)
    /\ NoExportVars

DoExportVCD == \E tScale \in TScales : ExportVCD(tScale, traces)

DoMergeStart == \E n \in DOMAIN merge : MergeStart(n)

DoHandoff == \E p \in DOMAIN merge, side \in {"A", "B"} : Handoff(p, side)

DoRecvClosed == \E p \in DOMAIN merge, side \in {"A", "B"} : RecvClosed(p, side)

\* The steps of the goroutines of an export.
Goroutines ==
    ExportHeader \/ DoMergeStart \/ DoHandoff \/ DoRecvClosed \/ ExportRecv \/ ExportClose

NextExport == DoExportVCD \/ Goroutines

SpecExport == InitExport /\ [][NextExport]_vars

\* The scheduler runs a goroutine that can run, and the caller reads on.
SpecExportFair == SpecExport /\ WF_vars(Goroutines)

--------------------------------------------------------------------------
(* Two traces, their producers and watchers, and an export of both. *)

\* Both signals defined, the second one set.
LockInputs == {<<3, 2>>}

DoSampleAtAny ==
    \E i \in DOMAIN traces :
        \E now \in {n \in NowInputs(traces[i]) : n > LastSample(traces[i]).When},
           in \in LockInputs : SampleAt(i, now, in[1], in[2])

\* One channel watches the second signal of one of the traces.
DoWatchAny == chans = <<>> /\ \E i \in DOMAIN traces : Watch(i, 1, MaxDepth)

DoCancelAny == \E i \in DOMAIN traces, ch \in 1..Len(chans) : Cancel(i, ch)

DoExportCall == \E tScale \in TScales : ExportCall(tScale)

DoModuleAny == \E i \in DOMAIN traces, name \in ModuleInputs : Module(i, name)

DoLabelAny == \E i \in DOMAIN traces, label \in LabelInputs : Label(i, 0, label)

InitLock ==
    /\ traces = <<NewTrace(1), NewTrace(1)>>
    /\ chans = <<>>
    /\ accepted = << <<>>, <<>> >>
    /\ lastOp = Op("NewTrace", 0, 0, 0, 0, 0, Nil)
    /\ NoExportVars

\* The steps of the caller of ExportVCD and of the goroutines it starts.
Exporter == CacheLock \/ CacheCopy \/ CacheSigs \/ ExportReturn \/ Goroutines

NextLock == DoSampleAtAny \/ DoWatchAny \/ DoCancelAny \/ DoExportCall \/ Exporter

SpecLock == InitLock /\ [][NextLock]_vars

\* The scheduler runs the exporter when it can run.
SpecLockFair == SpecLock /\ WF_vars(Exporter)

\* The same, with goroutines that name the module and label a signal.
NextRace == NextLock \/ DoModuleAny \/ DoLabelAny

SpecRace == InitLock /\ [][NextRace]_vars

--------------------------------------------------------------------------
(* Properties of the ring of samples. *)

Min(a, b) == IF a < b THEN a ELSE b

\* The last n elements of a sequence.
LastN(seq, n) == SubSeq(seq, Len(seq) - n + 1, Len(seq))

\* The samples a trace still holds, the oldest first: the slots the last
\* min(cursor, maxSamples) writes went to.
Retained(t) ==
    LET n == Min(t.cursor, t.maxSamples) IN
    [k \in 1..n |-> t.samples[((t.cursor - n + k - 1) % t.maxSamples) + 1]]

\* C1: the samples a trace retains, read oldest first, have strictly
\* increasing timestamps, and no two consecutive ones have the same
\* (Mask, Value) pair.
C1_RetainedOrdered ==
    \A i \in DOMAIN traces :
        LET r == Retained(traces[i]) IN
        \A k \in 1..(Len(r) - 1) :
            /\ r[k].When < r[k + 1].When
            /\ <<r[k].Mask, r[k].Value>> # <<r[k + 1].Mask, r[k + 1].Value>>

\* The ring has wrapped, holds two samples, and the last call was dropped
\* for its time alone.
C1_Witness ==
    /\ traces[1].cursor > traces[1].maxSamples
    /\ traces[1].maxSamples >= 2
    /\ lastOp.op = "SampleAt"
    /\ lastOp.now = LastSample(traces[1]).When
    /\ <<lastOp.mask, lastOp.value>> #
           <<LastSample(traces[1]).Mask, LastSample(traces[1]).Value>>

\* C3: the window a snapshot copies is the last min(n, C) of the n samples
\* accepted so far by a trace of capacity C, the oldest first.
C3_WindowIsLastAccepted ==
    lastOp.op = "cacheVCDDetail" =>
        LET n == Min(Len(accepted[1]), traces[1].maxSamples) IN
        /\ details[1].samples = n
        /\ details[1].working = LastN(accepted[1], n)

\* A snapshot of a ring of two or more slots that has wrapped to a slot
\* other than the first.
C3_Witness ==
    /\ lastOp.op = "cacheVCDDetail"
    /\ traces[1].maxSamples >= 2
    /\ Len(accepted[1]) > traces[1].maxSamples
    /\ traces[1].cursor % traces[1].maxSamples # 0

RECURSIVE OrOfMasks(_)
OrOfMasks(seq) == IF seq = <<>> THEN 0 ELSE Or(Head(seq).Mask, OrOfMasks(Tail(seq)))

\* C4: fullMask is the bitwise OR of the Mask of every sample accepted so
\* far, those the ring has overwritten included.
C4_FullMaskIsUnion ==
    \A i \in DOMAIN traces : traces[i].fullMask = OrOfMasks(accepted[i])

\* fullMask holds a bit that no retained sample has, after a dropped call.
C4_Witness ==
    /\ traces[1].cursor > traces[1].maxSamples
    /\ traces[1].fullMask # OrOfMasks(Retained(traces[1]))
    /\ lastOp.op = "SampleAt"
    /\ accepted[1][Len(accepted[1])] # Sample(lastOp.now, lastOp.mask, lastOp.value)

--------------------------------------------------------------------------
(* Properties of the watchers. *)

Bit(x, i) == (x \div (2 ^ i)) % 2

\* The effective state of signal sig in sample s: defined and set.
Eff(s, sig) == Bit(s.Mask, sig) = 1 /\ Bit(s.Value, sig) = 1

ValidSigs == {sig \in SigInputs : sig >= 0 /\ sig < 64}

Range(seq) == {seq[k] : k \in 1..Len(seq)}

\* The channels registered for signal sig.
WatchersOf(t, sig) == Range(t.changes[2 ^ sig])

Registered(t) == UNION {Range(t.changes[m]) : m \in DOMAIN t.changes}

LastAccepted == accepted[1][Len(accepted[1])]

Full(c) == Len(c.buf) >= c.depth

\* C2: a SampleAt call made when the trace has a sample, with a time not
\* after the last stored sample's or with its (mask, value), changes neither
\* the ring, the cursor, fullMask nor the registrations, and no buffer of a
\* watcher.
C2_RejectedChangesNothing ==
    [][(/\ lastOp'.op = "SampleAt"
        /\ accepted[1] # <<>>
        /\ \/ lastOp'.now <= LastAccepted.When
           \/ lastOp'.mask = LastAccepted.Mask /\ lastOp'.value = LastAccepted.Value)
       => (traces' = traces /\ chans' = chans)]_vars

\* A call dropped for its time, which differs from the last sample in the
\* state of a signal that a channel with room watches.
C2_Witness ==
    /\ lastOp.op = "SampleAt"
    /\ accepted[1] # <<>>
    /\ LastAccepted # Sample(lastOp.now, lastOp.mask, lastOp.value)
    /\ \E sig \in ValidSigs : \E h \in WatchersOf(traces[1], sig) :
          /\ chans[h].buf = <<>>
          /\ Eff(LastAccepted, sig) # Eff(Sample(lastOp.now, lastOp.mask, lastOp.value), sig)

\* C5: when a sample is accepted and the effective state of signal sig
\* differs from that of the sample accepted before it, every channel
\* watching sig gets one Event with the time of the sample and the new
\* state at the end of its buffer if the buffer has room, and is left as it
\* was if the buffer is full.
C5_ChangeIsSentOnce ==
    [][(/\ lastOp'.op = "SampleAt"
        /\ accepted[1] # <<>>
        /\ accepted'[1] # accepted[1])
       => \A sig \in ValidSigs : \A h \in WatchersOf(traces[1], sig) :
             LET new == Sample(lastOp'.now, lastOp'.mask, lastOp'.value) IN
             Eff(LastAccepted, sig) # Eff(new, sig) =>
                 IF Len(chans[h].buf) < chans[h].depth
                 THEN chans'[h].buf = Append(chans[h].buf, Event(new.When, Eff(new, sig)))
                 ELSE chans'[h].buf = chans[h].buf]_vars

\* Three samples were accepted, each changing a signal; a channel watching
\* it, whose buffer holds one Event, holds the Event of the third.
C5_Witness ==
    /\ Len(accepted[1]) = 3
    /\ lastOp.op = "SampleAt"
    /\ lastOp.now = accepted[1][3].When
    /\ \E sig \in ValidSigs : \E h \in WatchersOf(traces[1], sig) :
          /\ Eff(accepted[1][1], sig) # Eff(accepted[1][2], sig)
          /\ Eff(accepted[1][2], sig) # Eff(accepted[1][3], sig)
          /\ chans[h].depth = 1
          /\ chans[h].buf = <<Event(accepted[1][3].When, Eff(accepted[1][3], sig))>>

\* C6: a SampleAt call that is to be accepted returns, has stored its sample
\* and advanced the cursor, whatever the buffers hold; where it changes a
\* signal, the full channels watching it are left as they were and every
\* other channel watching it gets the Event.
C6_NeverWaitsOnWatchers ==
    [][(/\ lastOp'.op = "SampleAt"
        /\ \/ accepted[1] = <<>>
           \/ /\ lastOp'.now > LastAccepted.When
              /\ <<lastOp'.mask, lastOp'.value>> # <<LastAccepted.Mask, LastAccepted.Value>>)
       => LET new == Sample(lastOp'.now, lastOp'.mask, lastOp'.value)
              t == traces[1]
          IN /\ lastOp'.err = Nil
             /\ traces'[1].cursor = t.cursor + 1
             /\ traces'[1].samples[(t.cursor % t.maxSamples) + 1] = new
             /\ \A sig \in ValidSigs : \A h \in WatchersOf(t, sig) :
                   (accepted[1] # <<>> /\ Eff(LastAccepted, sig) # Eff(new, sig)) =>
                       /\ Full(chans[h]) => chans'[h] = chans[h]
                       /\ ~Full(chans[h]) =>
                              /\ Len(chans'[h].buf) = Len(chans[h].buf) + 1
                              /\ chans'[h].buf[Len(chans'[h].buf)] =
                                     Event(new.When, Eff(new, sig))]_vars

\* An accepted sample changed a signal that two channels watch: one was
\* full and does not hold its Event, the other holds it.
C6_Witness ==
    /\ lastOp.op = "SampleAt"
    /\ Len(accepted[1]) >= 2
    /\ LastAccepted = Sample(lastOp.now, lastOp.mask, lastOp.value)
    /\ \E sig \in ValidSigs : \E h1, h2 \in WatchersOf(traces[1], sig) :
          /\ Eff(accepted[1][Len(accepted[1]) - 1], sig) # Eff(LastAccepted, sig)
          /\ Full(chans[h1])
          /\ chans[h1].buf[Len(chans[h1].buf)].When < lastOp.now
          /\ chans[h2].buf # <<>>
          /\ chans[h2].buf[Len(chans[h2].buf)].When = lastOp.now

\* C7: Cancel of a registered channel removes that registration alone,
\* closes the channel and returns nil; Cancel of any other channel returns
\* ErrUnknownWatcher and changes nothing; a closed channel stays closed and
\* unregistered, and nothing is added to its buffer.
C7_CancelRemovesOne ==
    [][/\ lastOp'.op = "Cancel" =>
            LET ch == lastOp'.ch
                t == traces[1]
            IN IF ch \in Registered(t)
               THEN /\ lastOp'.err = Nil
                    /\ chans'[ch] = [chans[ch] EXCEPT !.closed = TRUE]
                    /\ \A h \in DOMAIN chans : h # ch => chans'[h] = chans[h]
                    /\ \A m \in DOMAIN t.changes :
                          LET Other(h) == h # ch IN
                          /\ traces'[1].changes[m] = SelectSeq(t.changes[m], Other)
                          /\ ch \in Range(t.changes[m]) =>
                                 Len(traces'[1].changes[m]) = Len(t.changes[m]) - 1
                    /\ traces' = [traces EXCEPT ![1].changes = traces'[1].changes]
               ELSE /\ lastOp'.err = ErrUnknownWatcher
                    /\ traces' = traces
                    /\ chans' = chans
       /\ \A h \in DOMAIN chans :
            chans[h].closed =>
                /\ chans'[h].closed
                /\ Len(chans'[h].buf) <= Len(chans[h].buf)
                /\ h \notin Registered(traces'[1])]_vars

\* A second Cancel of the same channel has failed; another channel is still
\* registered and has been sent an Event after the first Cancel.
C7_Witness ==
    /\ lastOp.op = "Cancel"
    /\ lastOp.err = ErrUnknownWatcher
    /\ lastOp.ch \in DOMAIN chans
    /\ chans[lastOp.ch].closed
    /\ \E h \in Registered(traces[1]) :
          /\ chans[h].buf # <<>>
          /\ chans[lastOp.ch].buf # <<>>
          /\ chans[h].buf[Len(chans[h].buf)].When >
                 chans[lastOp.ch].buf[Len(chans[lastOp.ch].buf)].When

--------------------------------------------------------------------------
(* Properties of the export. *)

\* No sample with a signal in its mask was ever accepted by trace i.
NoSignalRecorded(i) == OrOfMasks(accepted[i]) = 0

\* C8: ExportVCD of no trace, or of traces without any recorded signal,
\* returns ErrNoTraceData and no lines; as soon as one of the traces has a
\* recorded signal the export succeeds, the other traces being skipped.
C8_NoTraceDataOnlyWithoutSignals ==
    lastOp.op = "ExportVCD" =>
        /\ (\A i \in DOMAIN traces : NoSignalRecorded(i)) =>
               /\ lastOp.err = ErrNoTraceData
               /\ export.pc = "none"
               /\ lines = <<>>
        /\ (\E i \in DOMAIN traces : ~NoSignalRecorded(i)) => lastOp.err = Nil

\* C9: the Datums received from mergeVCD have stamps that never decrease,
\* and those of one snapshot come in the order its scan sent them.
C9_MergedInOrder ==
    \A i, j \in 1..Len(out) :
        i < j =>
            /\ out[i].stamp <= out[j].stamp
            /\ out[i].src[1] = out[j].src[1] => out[i].src[2] < out[j].src[2]

\* An export of three snapshots has ended; Datums of equal stamp came from
\* two snapshots, and the Datums of one snapshot came around those of
\* another.
C9_Witness ==
    /\ export.pc = "closed"
    /\ Len(details) = 3
    /\ \E i, j, k \in 1..Len(out) :
          /\ i < j /\ j < k
          /\ out[i].src[1] = out[k].src[1]
          /\ out[i].src[1] # out[j].src[1]
          /\ out[i].stamp = out[j].stamp
          /\ out[j].stamp < out[k].stamp

\* Every Datum of every scan.
AllScanned == UNION {Range(Scan(leaf)) : leaf \in 1..Len(details)}

\* The export has ended: every goroutine of mergeVCD has returned, and the
\* Datums received are those of the scans, each once.
C10_Complete ==
    /\ export.pc = "closed"
    /\ \A n \in DOMAIN merge : merge[n].pc = "done"
    /\ Range(out) = AllScanned
    /\ Len(out) = Cardinality(AllScanned)

\* C10: an export that has started ends with every Datum of every scan
\* received once, the channel of mergeVCD closed and every goroutine of the
\* merge returned.
C10_MergeEndsComplete == (export.pc = "header") ~> C10_Complete

\* The complete end of an export of three snapshots.
C10_Witness ==
    /\ C10_Complete
    /\ Len(details) = 3
    /\ Len(out) > 6

--------------------------------------------------------------------------
(* Properties of the identifiers of the signals. *)

\* The signals of the details i.., in the order of their declaration.
RECURSIVE SigsOf(_, _)
SigsOf(ds, i) == IF i > Len(ds) THEN <<>> ELSE ds[i].sigs \o SigsOf(ds, i + 1)

\* Every character of key is printable and not a space.
Printable(key) == \A k \in 1..Len(key) : key[k] >= 33 /\ key[k] <= 126

\* C11: in one export the n-th declared signal, counted over the included
\* traces in order, has the identifier of counter n-1, so that each trace
\* takes the block of counters after the one of the trace before it; the
\* identifiers are pairwise distinct; and keyOf gives distinct counters up
\* to MaxIndex distinct identifiers of printable characters only.
C11_IdsDistinct ==
    export.pc = "header" =>
        LET sigs == SigsOf(details, 1) IN
        /\ \A n \in 1..Len(sigs) : sigs[n].ch = keyOf(n - 1)
        /\ \A m, n \in 1..Len(sigs) : m # n => sigs[m].ch # sigs[n].ch
        /\ \A a \in 0..MaxIndex : Printable(keyOf(a))
        /\ Cardinality({keyOf(a) : a \in 0..MaxIndex}) = MaxIndex + 1

\* An export of three traces that declare seven signals has started.
C11_Witness ==
    /\ export.pc = "header"
    /\ Len(details) = 3
    /\ Len(SigsOf(details, 1)) >= 7

\* The number of bits set in x.
RECURSIVE PopCount(_)
PopCount(x) == IF x = 0 THEN 0 ELSE (x % 2) + PopCount(x \div 2)

\* C12: a snapshot of a trace declares one signal for every bit set in
\* fullMask, also when a single bit is set.
C12_EverySetBitDeclared ==
    lastOp.op = "cacheVCDDetail" =>
        /\ Len(details[1].sigs) = PopCount(details[1].fullMask)
        /\ \A n \in 1..Len(details[1].sigs) :
              And(details[1].fullMask, details[1].sigs[n].mask) # 0

--------------------------------------------------------------------------
(* Properties of the calls on a nil Trace. *)

\* C13: on the nil Trace that NewTrace returns for no samples, SampleAt,
\* Sample, Module, Label, Watch and Cancel return without a panic and leave
\* every state as it was.
C13_NilTraceIsSafe ==
    traces[1] = NilTrace =>
        /\ lastOp.err # Panic
        /\ chans = <<>>
        /\ accepted = << <<>> >>
        /\ NoExportVars

--------------------------------------------------------------------------
(* Properties of the lines of an export. *)

IsMarker(l) == l[1] = "#"

IsValue(l) == l[1] \in {"x", "0", "1"}

IsDumpvars(l) == l[1] = "$dumpvars"

IsBody(l) == IsMarker(l) \/ IsValue(l) \/ IsDumpvars(l)

\* The body that the Datums k.. of ds make: a marker where the stamp differs
\* from the one of the Datum before, $dumpvars after the first marker.
RECURSIVE BodyOf(_, _)
BodyOf(ds, k) ==
    IF k > Len(ds) THEN <<>>
    ELSE (IF k = 1 \/ ds[k].stamp # ds[k - 1].stamp
          THEN << <<"#", ds[k].stamp>> >> ELSE <<>>)
         \o (IF k = 1 THEN << <<"$dumpvars">> >> ELSE <<>>)
         \o <<ds[k].line>>
         \o BodyOf(ds, k + 1)

\* C14: in the lines of an export the header, the declarations and the one
\* $enddefinitions line come before every line of the body; the body has a
\* marker before the first Datum and wherever the stamp of a Datum differs
\* from the one before, and nowhere else, so that the stamps of the markers
\* increase; $dumpvars comes once, after the first marker; and the value
\* lines are the lines of the merged Datums, one each, in their order.
C14_LinesInShape ==
    export.pc \in {"merge", "closed"} =>
        LET ends == {k \in 1..Len(lines) : lines[k][1] = "$enddefinitions $end"} IN
        /\ Cardinality(ends) = 1
        /\ LET e == CHOOSE k \in ends : TRUE
               body == SubSeq(lines, e + 1, Len(lines))
               marks == SelectSeq(body, IsMarker)
           IN /\ \A k \in 1..e : ~IsBody(lines[k])
              /\ \A k \in 1..Len(body) : IsBody(body[k])
              /\ Len(body) = Len(BodyOf(out, 1))
              /\ \A k \in 1..Len(body) :
                    /\ body[k][1] = BodyOf(out, 1)[k][1]
                    /\ body[k][2 - (IF IsDumpvars(body[k]) THEN 1 ELSE 0)] =
                           BodyOf(out, 1)[k][2 - (IF IsDumpvars(body[k]) THEN 1 ELSE 0)]
              /\ \A i, j \in 1..Len(marks) : i < j => marks[i][2] < marks[j][2]
              /\ Len(SelectSeq(body, IsDumpvars)) = (IF out = <<>> THEN 0 ELSE 1)
              /\ out # <<>> => IsMarker(body[1]) /\ IsDumpvars(body[2])
              /\ Len(SelectSeq(body, IsValue)) = Len(out)
              /\ \A k \in 1..Len(out) : SelectSeq(body, IsValue)[k] = out[k].line

\* An export of two or more traces has ended with three markers, the stamp
\* of the first Datum being 0, and with a group of several value lines.
C14_Witness ==
    /\ export.pc = "closed"
    /\ Len(details) >= 2
    /\ out[1].stamp = 0
    /\ Len(SelectSeq(lines, IsMarker)) >= 3
    /\ \E k \in 1..Len(out) - 1 : out[k].stamp = out[k + 1].stamp

--------------------------------------------------------------------------
(* Properties of the stamps of an export. *)

\* The time of the first retained sample of snapshot v.
FirstWhen(v) == v.working[1].When

\* The stamp of the first Datum that the scan of details[leaf] sends.
FirstStamp(leaf) == Scan(leaf)[1].stamp

\* C15 as stated: of two traces exported together, the one whose first
\* retained sample is the earlier gives the earliest time of the dump, in
\* either order of the traces, and the first Datum of the other one has a
\* stamp above 0 for every time unit.
C15_LaterTraceStampPositive ==
    (export.pc # "none" /\ Len(details) = 2) =>
        \A a, b \in {1, 2} :
            FirstWhen(details[a]) > FirstWhen(details[b]) =>
                /\ export.earliest = FirstWhen(details[b])
                /\ FirstStamp(a) > 0

\* C15 as amended: of two traces exported together, the one whose first
\* retained sample is the earlier gives the earliest time of the dump, in
\* either order of the traces, and the stamp of the first Datum of the other
\* one is the number of whole time units between the two first samples:
\* above 0 exactly when they are a time unit or more apart.
C15_LaterTraceStampIsFloor ==
    (export.pc # "none" /\ Len(details) = 2) =>
        \A a, b \in {1, 2} :
            FirstWhen(details[a]) > FirstWhen(details[b]) =>
                LET gap == FirstWhen(details[a]) - FirstWhen(details[b]) IN
                /\ export.earliest = FirstWhen(details[b])
                /\ FirstStamp(a) * export.tScale <= gap
                /\ gap < (FirstStamp(a) + 1) * export.tScale
                /\ FirstStamp(a) > 0 <=> gap >= export.tScale

\* Two traces are exported, the one passed first starting later than the
\* other by less than a time unit.
C15_Witness ==
    /\ export.pc = "header"
    /\ Len(details) = 2
    /\ FirstWhen(details[1]) > FirstWhen(details[2])
    /\ FirstWhen(details[1]) - FirstWhen(details[2]) < export.tScale
    /\ FirstStamp(1) = 0

--------------------------------------------------------------------------
(* Properties of the first sample of a watched trace. *)

\* C16: the first sample a trace accepts sends to every channel registered
\* at that moment, whose buffer has room, one Event with the time of the
\* sample and the state its signal has in the sample, whatever the mask and
\* the value of the sample are.
C16_FirstSampleNotifiesAll ==
    [][(/\ lastOp'.op = "SampleAt"
        /\ accepted[1] = <<>>
        /\ accepted'[1] # <<>>)
       => \A sig \in ValidSigs : \A h \in WatchersOf(traces[1], sig) :
             LET new == Sample(lastOp'.now, lastOp'.mask, lastOp'.value) IN
             IF Len(chans[h].buf) < chans[h].depth
             THEN chans'[h].buf = Append(chans[h].buf, Event(new.When, Eff(new, sig)))
             ELSE chans'[h].buf = chans[h].buf]_vars

--------------------------------------------------------------------------
(* Properties of the scan of one snapshot. *)

\* The sample before sample i of v; before the first one nothing is set.
PrevOf(v, i) == IF i = 1 THEN ZeroSample ELSE v.working[i - 1]

\* Signal sig is in (prevMask XOR mask) OR (prevValue XOR value) at sample i.
InAnyDelta(v, i, sig) ==
    And(sig.mask, Or(Xor(PrevOf(v, i).Mask, v.working[i].Mask),
                     Xor(PrevOf(v, i).Value, v.working[i].Value))) # 0

\* Signal sig is in prevMask XOR mask at sample i.
InMaskDelta(v, i, sig) ==
    And(sig.mask, Xor(PrevOf(v, i).Mask, v.working[i].Mask)) # 0

\* The token of sig at sample s.
TokenOf(s, sig) ==
    IF And(sig.mask, s.Mask) = 0 THEN "x"
    ELSE IF And(sig.mask, s.Value) # 0 THEN "1" ELSE "0"

\* The Datum the claim gives signal sig at sample i: its stamp and its line.
ClaimedDatum(v, i, sig) ==
    [stamp |-> (v.working[i].When - export.earliest) \div export.tScale,
     line  |-> <<TokenOf(v.working[i], sig), sig.ch>>]

\* C17 as stated, the signals that yield a Datum at sample i.
YieldsAsStated(v, i, sig) == i = 1 \/ InAnyDelta(v, i, sig)

\* C17 as amended: a signal that is undefined in the sample yields a Datum
\* only when it was defined in the sample before.
YieldsAsAmended(v, i, sig) ==
    \/ i = 1
    \/ InMaskDelta(v, i, sig)
    \/ And(sig.mask, v.working[i].Mask) # 0 /\ InAnyDelta(v, i, sig)

\* The Datums of the samples i.. of v, from signal k of sample i on, where
\* stated says which of the two readings decides.
RECURSIVE DatumsFrom(_, _, _, _)
DatumsFrom(v, i, k, stated) ==
    IF i > v.samples THEN <<>>
    ELSE IF k > Len(v.sigs) THEN DatumsFrom(v, i + 1, 1, stated)
    ELSE (IF (stated /\ YieldsAsStated(v, i, v.sigs[k]))
              \/ (~stated /\ YieldsAsAmended(v, i, v.sigs[k]))
          THEN <<ClaimedDatum(v, i, v.sigs[k])>> ELSE <<>>)
         \o DatumsFrom(v, i, k + 1, stated)

\* What the scan of details[leaf] sends: the stamps and the lines.
Scanned(leaf) ==
    [n \in 1..Len(Scan(leaf)) |->
        [stamp |-> Scan(leaf)[n].stamp, line |-> Scan(leaf)[n].line]]

\* C17 as stated: the scan of a snapshot sends, sample after sample, one
\* Datum for every declared signal at the first sample, and later one Datum
\* for every declared signal whose bit is in (prevMask XOR mask) OR
\* (prevValue XOR value), and no other; the token is x where the bit is not
\* in the mask, else 0 or 1 by the value; the stamp is the floor of
\* (time - earliest) / time unit.
C17_ScanYieldsAnyDelta ==
    export.pc = "header" =>
        \A leaf \in 1..Len(details) :
            Scanned(leaf) = DatumsFrom(details[leaf], 1, 1, TRUE)

\* C17 as amended: as stated, but after the first sample a declared signal
\* yields its one Datum when its bit is in prevMask XOR mask, or is in the
\* mask of the sample and in prevValue XOR value; a signal that stays
\* undefined yields none, whatever its value bit does.
C17_ScanYieldsDefinedDelta ==
    export.pc = "header" =>
        \A leaf \in 1..Len(details) :
            Scanned(leaf) = DatumsFrom(details[leaf], 1, 1, FALSE)

\* A snapshot of three samples is scanned: at the second one a signal
\* becomes undefined and yields x; at the third it stays undefined while
\* its value bit changes, and yields nothing.
C17_Witness ==
    /\ export.pc = "header"
    /\ \E leaf \in 1..Len(details) :
          LET v == details[leaf] IN
          /\ v.samples = 3
          /\ \E k \in 1..Len(v.sigs) :
                /\ InMaskDelta(v, 2, v.sigs[k])
                /\ TokenOf(v.working[2], v.sigs[k]) = "x"
                /\ InAnyDelta(v, 3, v.sigs[k])
                /\ ~InMaskDelta(v, 3, v.sigs[k])
                /\ TokenOf(v.working[3], v.sigs[k]) = "x"
          /\ Len(Scan(leaf)) = Len(v.sigs) + 1

--------------------------------------------------------------------------
(* Properties of the order of the merge. *)

\* Datum d comes before Datum e in the stable merge of the scans taken in
\* the order of the traces: by stamp, then by trace, then by place in the scan.
ComesBefore(d, e) ==
    \/ d.stamp < e.stamp
    \/ /\ d.stamp = e.stamp
       /\ \/ d.src[1] < e.src[1]
          \/ d.src[1] = e.src[1] /\ d.src[2] < e.src[2]

\* C18: whatever the scheduling of the goroutines, the Datums received so
\* far are the first ones of the stable merge of the scans taken in the
\* order of the traces, in that order; among equal stamps the Datums of a
\* trace listed earlier come first; at the end the whole merge was received.
C18_MergeIsStable ==
    export.pc \in {"merge", "closed"} =>
        /\ \A i, j \in 1..Len(out) : i < j => ComesBefore(out[i], out[j])
        /\ \A d \in AllScanned : \A k \in 1..Len(out) :
              ComesBefore(d, out[k]) => d \in Range(out)
        /\ export.pc = "closed" => Range(out) = AllScanned

\* An export of three traces has ended; Datums of equal stamp came from the
\* first and the second trace, and from the second and the third.
C18_Witness ==
    /\ export.pc = "closed"
    /\ Len(details) = 3
    /\ \E i, j, k \in 1..Len(out) :
          /\ out[i].stamp = out[j].stamp /\ out[j].stamp = out[k].stamp
          /\ out[i].src[1] = 1 /\ out[j].src[1] = 2 /\ out[k].src[1] = 3

--------------------------------------------------------------------------
(* Properties of the locks. *)

\* The exporter holds the lock of trace i.
HeldByExport(i) == traces[i].mu = "cacheVCDDetail"

\* The exporter holds no lock but, inside cacheVCDDetail, the one of the
\* trace it is copying.
OneLockAtATime ==
    /\ Cardinality({i \in DOMAIN traces : HeldByExport(i)}) <= 1
    /\ \A i \in DOMAIN traces :
          HeldByExport(i) <=> (export.pc \in {"locked", "copied"} /\ export.i = i)

\* C19: the exporter never holds the locks of two traces at once; it holds
\* the lock of a trace only from the Lock of cacheVCDDetail to its return,
\* so none between two traces and none while the lines and the merge run;
\* a lock it holds is released, and its loop over the traces comes to its
\* end, whatever SampleAt, Watch and Cancel calls come in between.
C19_OneLockAtATime ==
    /\ []OneLockAtATime
    /\ \A i \in 1..2 : HeldByExport(i) ~> CanLock(traces[i])
    /\ (export.pc = "loop") ~> (export.pc \in {"none", "header", "merge", "closed"})

\* The exporter copies the second trace under its lock, having released
\* the lock of the first one, whose snapshot it keeps; a channel watches.
C19_Witness ==
    /\ export.pc = "copied"
    /\ export.i = 2
    /\ HeldByExport(2)
    /\ CanLock(traces[1])
    /\ Len(details) = 1
    /\ chans # <<>>

\* C20: while cacheVCDDetail holds the lock of a trace, no other operation
\* writes a field of that trace, its labels and its module name included,
\* and none ends the program.
C20_FieldsChangeUnderLockOnly ==
    [][\A i \in 1..2 :
          (HeldByExport(i) /\ lastOp' # lastOp) =>
              /\ traces'[i] = traces[i]
              /\ lastOp'.err # Panic]_vars

--------------------------------------------------------------------------
(* The body read back: the Datums ExportVCD received, each written as one
   line, against the samples of the snapshots. *)

\* How many Datums the scan of details[leaf] has sent when it leaves
\* sample i.
ScannedThrough(leaf, i) ==
    Len(ScanFrom([details[leaf] EXCEPT !.samples = i], 1, 0, 0,
                 export.earliest, export.tScale))

\* Where the n-th Datum of the scan of details[leaf] stands in out.
PlaceOf(leaf, n) == CHOOSE p \in 1..Len(out) : out[p].src = <<leaf, n>>

\* The token of the last line for the identifier of sig that stands in out
\* at or before the Datums of sample i of details[leaf]; "" if there is none.
LastToken(leaf, i, sig) ==
    LET upto == PlaceOf(leaf, ScannedThrough(leaf, i))
        ps == {p \in 1..upto : out[p].line[2] = sig.ch}
    IN IF ps = {} THEN ""
       ELSE out[CHOOSE p \in ps : \A q \in ps : q <= p].line[1]

--------------------------------------------------------------------------
(* Registered and open. *)

\* C22: in every state of every interleaving of SampleAt, Watch and Cancel
\* on one trace no call has panicked (no Event was sent on a closed channel
\* and no channel was closed twice), and a channel is among the
\* registrations of the trace exactly when it is open, and then once.
C22_RegisteredIffOpen ==
    /\ lastOp.err # Panic
    /\ \A h \in DOMAIN chans :
          /\ h \in Registered(traces[1]) <=> ~chans[h].closed
          /\ Cardinality(Places(traces[1], h)) <= 1

\* SampleAt has returned from a sample that changed both signals, while one
\* channel is closed and out of the registrations and another, open, holds
\* the Event of that sample.
C22_Witness ==
    /\ lastOp.op = "SampleAt"
    /\ lastOp.err = Nil
    /\ Len(accepted[1]) >= 2
    /\ LastAccepted.When = lastOp.now
    /\ Delta(accepted[1][Len(accepted[1]) - 1], LastAccepted.Mask, LastAccepted.Value) = 3
    /\ \E c \in DOMAIN chans, h \in DOMAIN chans :
          /\ chans[c].closed
          /\ c \notin Registered(traces[1])
          /\ h \in Registered(traces[1])
          /\ chans[h].buf # <<>>
          /\ chans[h].buf[Len(chans[h].buf)].When = lastOp.now

--------------------------------------------------------------------------
(* Stamps count from the earliest sample. *)

Markers == SelectSeq(lines, IsMarker)

\* C23: in every export that returned a channel no sample of a snapshot in
\* details is earlier than earliest, so that every stamp is the quotient of
\* a difference that is not negative; and the first marker written is #0,
\* standing right after the $enddefinitions line.
C23_StampsCountFromZero ==
    export.pc # "none" =>
        /\ \A leaf \in 1..Len(details) :
              /\ \A i \in 1..details[leaf].samples :
                    details[leaf].working[i].When - export.earliest >= 0
              /\ \A n \in 1..Len(Scan(leaf)) : Scan(leaf)[n].stamp >= 0
        /\ \E leaf \in 1..Len(details) : FirstWhen(details[leaf]) = export.earliest
        /\ out # <<>> =>
              /\ Markers # <<>>
              /\ Markers[1] = <<"#", 0>>
              /\ \E k \in 2..Len(lines) :
                    /\ lines[k] = <<"#", 0>>
                    /\ lines[k - 1] = <<"$enddefinitions $end">>
                    /\ \A q \in 1..(k - 1) : ~IsMarker(lines[q])

\* An export of several snapshots has ended; the snapshot listed first
\* starts after the earliest one, and some stamp is past 0.
C23_Witness ==
    /\ export.pc = "closed"
    /\ Len(details) >= 2
    /\ FirstWhen(details[1]) > export.earliest
    /\ Len(Markers) >= 2
    /\ Markers[1] = <<"#", 0>>

--------------------------------------------------------------------------
(* What a watcher receives when no Event is dropped. *)

\* No send has found the buffer of channel h full, and the Events in it
\* have increasing times and alternate between On and not On.
Alternates(h) ==
    LET buf == chans[h].buf IN
    /\ Len(buf) < chans[h].depth
    /\ \A k \in 1..(Len(buf) - 1) :
          /\ buf[k].When < buf[k + 1].When
          /\ buf[k].On # buf[k + 1].On

\* Channel h is there and the trace has no sample yet.
WatchedFromStart(h) == h \in DOMAIN chans /\ accepted[1] = <<>>

\* The first Event of channel h, if there is one, has On = true.
FirstIsOn(h) ==
    IF h \in DOMAIN chans
    THEN chans[h].buf # <<>> => chans[h].buf[1].On
    ELSE TRUE

\* C24: a watcher whose buffer never fills receives Events with strictly
\* increasing times and with On alternating from each to the next; and if
\* it was registered before the first sample of the trace, the first Event
\* it receives has On = true.
C24_EventsAlternate ==
    /\ [](\A h \in DOMAIN chans : Alternates(h))
    /\ \A h \in 1..MaxWatchers : [](WatchedFromStart(h) => []FirstIsOn(h))

\* One watcher holds three Events, the first with On = true; another,
\* registered later for the same signal, holds fewer, the first with
\* On = false.
C24_Witness ==
    \E h \in DOMAIN chans, g \in DOMAIN chans :
        /\ Len(chans[h].buf) = 3
        /\ chans[h].buf[1].On
        /\ h < g
        /\ Len(chans[g].buf) = 2
        /\ ~chans[g].buf[1].On
        /\ chans[g].buf[2] = chans[h].buf[3]

====
